---------------------------- MODULE Spec2Model ----------------------------
(***************************************************************************)
(* A model of Taskalicious' two stateful components:                       *)
(*                                                                         *)
(*   RetryTask::run              src/src/retry_task.rs                     *)
(*   SuccessTrackingTask         src/src/success_tracking_task.rs          *)
(*                                                                         *)
(* The two share no state.  RetrySpec is the state machine of one          *)
(* RetryTask (builder calls, then one run); LatchSpec is the state machine *)
(* of one shared liveness flag and the holders (clones) that act on it.    *)
(***************************************************************************)
EXTENDS Integers, Sequences, FiniteSets, TLC

VARIABLES
    \* ---- RetryTask (retry_task.rs) ----
    num_retries,    \* RetryTask.num_retries: u32
    sleep_time,     \* RetryTask.sleep_time: SleepTime
    r_pc,           \* position of the run future
    retry,          \* the loop variable of `for retry in 0..num_retries`
    last_error,     \* Option<AnyhowError>
    r_result,       \* what run returned, NoResult before it returns
    log,            \* what run did so far: the calls of fun and the sleeps
    \* ---- SuccessTrackingTask (success_tracking_task.rs) ----
    heap,           \* the AtomicBool cells that Arc::new has allocated
    is_alive,       \* per holder: its field is_alive, an Arc: a cell of heap
    status,         \* per holder: "none" (not yet made), "live", "dropped"
    spawned,        \* per holder: the clone owned by a spawn_while_alive worker
    pc,             \* per holder: position of the method it is running
    task,           \* per holder: the task or future handed to the method
    calls,          \* per holder: task calls made by the method it is running
    result,         \* per holder: what its last method returned
    num_calls,      \* the side-effect counter shared by all supplied tasks
    killer,         \* the holder whose store made the flag false, or 0
    entry_alive,    \* per holder: the flag as its method was called
    late_calls      \* per holder: calls its method began with the flag false

retryVars == <<num_retries, sleep_time, r_pc, retry, last_error, r_result, log>>
latchVars == <<heap, is_alive, status, spawned, pc, task, calls,
               result, num_calls, killer, entry_alive,
               late_calls>>
vars == <<retryVars, latchVars>>

(***************************************************************************)
(* Bounds of the model.                                                    *)
(***************************************************************************)
MaxRetries == 3     \* retries(n) is called with n in 0..MaxRetries
MaxHolders == 2     \* the latch that new() made and its clones
MaxCalls == 2       \* task calls begun while the flag is true, over all holders

(***************************************************************************)
(* Program constants.                                                      *)
(***************************************************************************)
DEFAULT_NUM_RETRIES == 3
DEFAULT_SLEEP_MILLIS == 10000

(***************************************************************************)
(* Values.  Result<V, AnyhowError> is a record with a tag; an inner task's *)
(* Result<V, E> carries the task's own error E, which run converts with    *)
(* err.into().                                                             *)
(***************************************************************************)
Vals == {"v1", "v2"}
Errs == {"e1", "e2"}

NoErr == [kind |-> "none", src |-> "-"]

\* a failure that leaves no error behind
ForgetsErr(e) == NoErr

IntoAnyhow(e) == [kind |-> "from", src |-> e]
AnyhowMsg(m) == [kind |-> "msg", src |-> m]

Ok(v) == [tag |-> "Ok", val |-> v, err |-> NoErr]
Err(a) == [tag |-> "Err", val |-> "-", err |-> a]
NoResult == [tag |-> "None", val |-> "-", err |-> NoErr]

InnerOk(v) == [tag |-> "Ok", val |-> v, err |-> "-"]
InnerErr(e) == [tag |-> "Err", val |-> "-", err |-> e]
Outcomes == {InnerOk(v) : v \in Vals} \cup {InnerErr(e) : e \in Errs}

(***************************************************************************)
(* SleepTime (sleep_time.rs).                                              *)
(***************************************************************************)
SleepTimeDuration(d) == [kind |-> "Duration", min |-> d, max |-> d]
SleepTimeMinMax(lo, hi) == [kind |-> "MinMax", min |-> lo, max |-> hi]

from_millis(millis) == SleepTimeDuration(millis)

\* The durations into_duration may return: the duration itself, or any
\* duration of min..max (max excluded) that the random source draws.
into_duration(s) ==
    IF s.kind = "Duration" THEN {s.min} ELSE {d \in s.min..(s.max - 1) : TRUE}

SleepTimes == {SleepTimeDuration(0), SleepTimeDuration(100),
               SleepTimeMinMax(1, 3), SleepTimeMinMax(2, 2)}

(***************************************************************************)
(* RetryTask.                                                              *)
(***************************************************************************)
CallEv(out) == [ev |-> "call", out |-> out, d |-> 0]
SleepEv(d) == [ev |-> "sleep", out |-> InnerOk("v1"), d |-> d]

\* RetryTask::new()
RetryInit ==
    /\ num_retries = DEFAULT_NUM_RETRIES
    /\ sleep_time = from_millis(DEFAULT_SLEEP_MILLIS)
    /\ r_pc = "new"
    /\ retry = 0
    /\ last_error = NoErr
    /\ r_result = NoResult
    /\ log = <<>>

\* RetryTask::retries(n)
Retries(n) ==
    /\ r_pc = "new"
    /\ num_retries' = n
    /\ UNCHANGED <<sleep_time, r_pc, retry, last_error, r_result, log>>
    /\ UNCHANGED latchVars

\* RetryTask::sleep_time(s)
SetSleepTime(s) ==
    /\ r_pc = "new"
    /\ sleep_time' = s
    /\ UNCHANGED <<num_retries, r_pc, retry, last_error, r_result, log>>
    /\ UNCHANGED latchVars

\* run is polled for the first time: last_error = None, the loop begins
RunStart ==
    /\ r_pc = "new"
    /\ r_pc' = "loop"
    /\ retry' = 0
    /\ last_error' = NoErr
    /\ UNCHANGED <<num_retries, sleep_time, r_result, log>>
    /\ UNCHANGED latchVars

\* (mutant) the range taken as 0..=n
RangeYieldsInclusive(r, n) == r <= n

\* whether the range 0..n of `for retry in 0..num_retries` yields r
RangeYields(r, n) == r < n

\* the range yields retry, and fun() is invoked and awaited; the
\* invocation ends with any outcome
CallFun(out) ==
    /\ r_pc = "loop"
    /\ RangeYields(retry, num_retries)
    /\ log' = Append(log, CallEv(out))
    /\ r_pc' = "match"
    /\ UNCHANGED <<num_retries, sleep_time, retry, last_error, r_result>>
    /\ UNCHANGED latchVars

\* a loop that goes to its next attempt without sleeping
SleepsAfterErrNever(r, n) == FALSE

\* `if retry < num_retries` of the Err arm
SleepsAfterErr(r, n) == r < n

LastOut == log[Len(log)].out

\* (mutant) the Ok arm keeps the value and lets the loop go on
MatchOkGoesOn ==
    /\ r_pc = "match"
    /\ LastOut.tag = "Ok"
    /\ r_result' = Ok(LastOut.val)
    /\ r_pc' = "loop"
    /\ retry' = retry + 1
    /\ UNCHANGED <<num_retries, sleep_time, last_error, log>>
    /\ UNCHANGED latchVars

\* `Ok(return_value) => return Ok(return_value)`
MatchOk ==
    /\ r_pc = "match"
    /\ LastOut.tag = "Ok"
    /\ r_result' = Ok(LastOut.val)
    /\ r_pc' = "done"
    /\ UNCHANGED <<num_retries, sleep_time, retry, last_error, log>>
    /\ UNCHANGED latchVars

\* `Err(err) =>`: the error is converted and recorded; then the sleep is
\* begun, or the arm falls through to the next turn of the loop
MatchErr ==
    /\ r_pc = "match"
    /\ LastOut.tag = "Err"
    /\ last_error' = IntoAnyhow(LastOut.err)
    /\ IF SleepsAfterErr(retry, num_retries)
         THEN /\ r_pc' = "sleep"
              /\ retry' = retry
         ELSE /\ r_pc' = "loop"
              /\ retry' = retry + 1
    /\ UNCHANGED <<num_retries, sleep_time, r_result, log>>
    /\ UNCHANGED latchVars

\* gen_range panics when min..max is empty
SleepPanic ==
    /\ r_pc = "sleep"
    /\ into_duration(sleep_time) = {}
    /\ r_pc' = "panicked"
    /\ UNCHANGED <<num_retries, sleep_time, retry, last_error, r_result, log>>
    /\ UNCHANGED latchVars

\* `sleep(sleep_time.into_duration()).await; continue`
Sleep(d) ==
    /\ r_pc = "sleep"
    /\ d \in into_duration(sleep_time)
    /\ log' = Append(log, SleepEv(d))
    /\ retry' = retry + 1
    /\ r_pc' = "loop"
    /\ UNCHANGED <<num_retries, sleep_time, last_error, r_result>>
    /\ UNCHANGED latchVars

RanOutMsg == AnyhowMsg("Ran out of retries and error was not caught")

\* last_error.unwrap_or_else(|| anyhow!(..))
unwrap_or_else(opt, dflt) == IF opt = NoErr THEN dflt ELSE opt

\* the range is exhausted: `Err(error)` is returned
LoopExit ==
    /\ r_pc = "loop"
    /\ ~RangeYields(retry, num_retries)
    /\ r_result' = Err(unwrap_or_else(last_error, RanOutMsg))
    /\ r_pc' = "done"
    /\ UNCHANGED <<num_retries, sleep_time, retry, last_error, log>>
    /\ UNCHANGED latchVars

RetryNext ==
    \/ \E n \in 0..MaxRetries : Retries(n)
    \/ \E s \in SleepTimes : SetSleepTime(s)
    \/ RunStart
    \/ \E out \in Outcomes : CallFun(out)
    \/ MatchOk
    \/ MatchErr
    \/ \E d \in 0..100 : Sleep(d)
    \/ SleepPanic
    \/ LoopExit

(***************************************************************************)
(* SuccessTrackingTask.  A holder is one SuccessTrackingTask value: the    *)
(* latch that new() made, or a clone; holders are numbered as made.        *)
(* A holder runs one method at a time: the methods race between holders.   *)
(* is_debug_print only selects whether an error is printed, and is left    *)
(* out.                                                                    *)
(***************************************************************************)
Holders == 1..MaxHolders

AlreadyDead == AnyhowMsg("calling run on a task that has already ended")

\* the error a looped task's call number c fails with: each call its own
ErrOfCall(c) == IF c = 1 THEN "e1" ELSE IF c = 2 THEN "e2" ELSE "e3"

\* A supplied task: its call number failAt fails with err (0: no call
\* fails), every other call returns Ok(val).  run is handed a future, which
\* is a task called once.
NoTask == [failAt |-> 0, val |-> "-", err |-> "-"]
RunTasks ==
    {[failAt |-> 0, val |-> v, err |-> "-"] : v \in Vals}
        \cup {[failAt |-> 1, val |-> "-", err |-> e] : e \in Errs}
LoopTasks ==
    {[failAt |-> 0, val |-> "unit", err |-> "-"]}
        \cup {[failAt |-> k, val |-> "unit", err |-> ErrOfCall(k)] :
                  k \in 1..MaxCalls}

\* the outcome of call number c of task t
Outcome(t, c) == IF t.failAt = c THEN InnerErr(t.err) ELSE InnerOk(t.val)

\* task.await.map_err(Into::into)
map_err_into(out) ==
    IF out.tag = "Err" THEN Err(IntoAnyhow(out.err)) ELSE Ok(out.val)

\* SuccessTrackingTask::new() has made holder 1
LatchInit ==
    /\ heap = (1 :> TRUE)
    /\ killer = 0
    /\ is_alive = [h \in Holders |-> IF h = 1 THEN 1 ELSE 0]
    /\ status = [h \in Holders |-> IF h = 1 THEN "live" ELSE "none"]
    /\ spawned = [h \in Holders |-> FALSE]
    /\ pc = [h \in Holders |-> "idle"]
    /\ task = [h \in Holders |-> NoTask]
    /\ calls = [h \in Holders |-> 0]
    /\ result = [h \in Holders |-> NoResult]
    /\ num_calls = 0
    /\ entry_alive = [h \in Holders |-> FALSE]
    /\ late_calls = [h \in Holders |-> 0]

\* the holder that the next clone() makes
NextHolder == Cardinality({h \in Holders : status[h] # "none"}) + 1

\* is_alive(): self.is_alive.load(Acquire)
IsAlive(h) == heap[is_alive[h]]

\* (mutant) the flag is flipped, as by fetch_xor(true)
StoreFlipped(hp, cell) == [hp EXCEPT ![cell] = ~hp[cell]]

\* self.is_alive.store(false, Release), on the heap hp
StoreFalse(hp, cell) == [hp EXCEPT ![cell] = FALSE]

\* the holder whose store made the cell false is remembered
Kills(h) == IF killer = 0 /\ heap[is_alive[h]] THEN h ELSE killer

\* (mutant) the AtomicBool is copied into a cell of its own
DeepClone(h) ==
    LET cell == Cardinality(DOMAIN heap) + 1 IN
      [ptr |-> cell, heap |-> heap @@ (cell :> heap[is_alive[h]])]

\* Arc::clone of holder h's field: the same cell, and the heap as it is
ArcClone(h) == [ptr |-> is_alive[h], heap |-> heap]

\* #[derive(Clone)]: the clone's is_alive is a clone of the Arc
Clone(h) ==
    /\ status[h] = "live"
    /\ ~spawned[h]
    /\ NextHolder \in Holders
    /\ LET c == NextHolder IN
         /\ is_alive' = [is_alive EXCEPT ![c] = ArcClone(h).ptr]
         /\ heap' = ArcClone(h).heap
         /\ status' = [status EXCEPT ![c] = "live"]
    /\ UNCHANGED <<killer, spawned, pc, task, calls, result, num_calls>>
    /\ UNCHANGED retryVars
    /\ UNCHANGED entry_alive
    /\ UNCHANGED late_calls

\* abort()
Abort(h) ==
    /\ status[h] = "live"
    /\ ~spawned[h]
    /\ pc[h] = "idle"
    /\ heap' = StoreFalse(heap, is_alive[h])
    /\ killer' = Kills(h)
    /\ UNCHANGED <<is_alive, status, spawned, pc, task, calls, result,
                   num_calls>>
    /\ UNCHANGED retryVars
    /\ UNCHANGED entry_alive
    /\ UNCHANGED late_calls

\* a holder that goes away without the Drop implementation
DropWithoutAbort(h) ==
    /\ status[h] = "live"
    /\ ~spawned[h]
    /\ pc[h] = "idle"
    /\ status' = [status EXCEPT ![h] = "dropped"]
    /\ UNCHANGED <<heap, killer, is_alive, spawned, pc, task, calls, result,
                   num_calls, entry_alive, late_calls>>
    /\ UNCHANGED retryVars

\* drop(): self.abort().  A holder is not dropped while a method borrows it.
Drop(h) ==
    /\ status[h] = "live"
    /\ ~spawned[h]
    /\ pc[h] = "idle"
    /\ heap' = StoreFalse(heap, is_alive[h])
    /\ killer' = Kills(h)
    /\ status' = [status EXCEPT ![h] = "dropped"]
    /\ UNCHANGED <<is_alive, spawned, pc, task, calls, result,
                   num_calls>>
    /\ UNCHANGED retryVars
    /\ UNCHANGED entry_alive
    /\ UNCHANGED late_calls

\* (mutant) the check is left out
HasEndedNever(h) == FALSE

\* The calls that may have begun when holder h begins one.  The bound is on
\* the calls begun while the flag is true; a method that has passed its
\* check still begins its call once the flag is false, one per holder.
CallRoom(h) == IF IsAlive(h) THEN MaxCalls ELSE MaxCalls + MaxHolders

\* a call that holder h begins now is one more begun with the flag false
LateCall(h) ==
    [late_calls EXCEPT ![h] = IF IsAlive(h) THEN @ ELSE @ + 1]

\* `if !self.is_alive()` of run (line 41) and of while_alive (line 62)
HasEnded(h) == ~IsAlive(h)

\* run(task), to its first await: the check of line 41
Run(h, t) ==
    /\ status[h] = "live"
    /\ ~spawned[h]
    /\ pc[h] = "idle"
    /\ IF HasEnded(h)
         THEN /\ result' = [result EXCEPT ![h] = Err(AlreadyDead)]
              /\ pc' = [pc EXCEPT ![h] = "run_ret"]
              /\ UNCHANGED task
         ELSE /\ task' = [task EXCEPT ![h] = t]
              /\ pc' = [pc EXCEPT ![h] = "run_call"]
              /\ UNCHANGED result
    /\ UNCHANGED <<heap, killer, is_alive, status, spawned, calls,
                   num_calls>>
    /\ UNCHANGED retryVars
    /\ entry_alive' = [entry_alive EXCEPT ![h] = IsAlive(h)]
    /\ UNCHANGED late_calls

\* `task.await`: the supplied future starts to execute
RunCall(h) ==
    /\ pc[h] = "run_call"
    /\ num_calls < CallRoom(h)
    /\ num_calls' = num_calls + 1
    /\ calls' = [calls EXCEPT ![h] = calls[h] + 1]
    /\ pc' = [pc EXCEPT ![h] = "run_await"]
    /\ UNCHANGED <<heap, killer, is_alive, status, spawned, task,
                   result>>
    /\ UNCHANGED retryVars
    /\ UNCHANGED entry_alive
    /\ late_calls' = LateCall(h)

\* (mutant) run never aborts
RunAbortsNever(res) == FALSE

\* (mutant) run aborts whatever the result
RunAbortsAlways(res) == TRUE

\* `if let Err(err) = &result` of run (line 46)
RunAborts(res) == res.tag = "Err"

\* the future completes: lines 45..54 of run
RunDone(h) ==
    /\ pc[h] = "run_await"
    /\ LET res == map_err_into(Outcome(task[h], calls[h])) IN
         /\ IF RunAborts(res)
              THEN /\ heap' = StoreFalse(heap, is_alive[h])
                   /\ killer' = Kills(h)
              ELSE UNCHANGED <<heap, killer>>
         /\ result' = [result EXCEPT ![h] = res]
    /\ pc' = [pc EXCEPT ![h] = "run_ret"]
    /\ UNCHANGED <<is_alive, status, spawned, task, calls, num_calls>>
    /\ UNCHANGED retryVars
    /\ UNCHANGED entry_alive
    /\ UNCHANGED late_calls

\* the entry of while_alive: the check of line 62
WaEntry(h) ==
    IF HasEnded(h)
      THEN /\ result' = [result EXCEPT ![h] = Err(AlreadyDead)]
           /\ pc' = [pc EXCEPT ![h] = "wa_ret"]
      ELSE /\ pc' = [pc EXCEPT ![h] = "wa_loop"]
           /\ UNCHANGED result

\* while_alive(task), to the loop
WhileAlive(h, t) ==
    /\ status[h] = "live"
    /\ ~spawned[h]
    /\ pc[h] = "idle"
    /\ task' = [task EXCEPT ![h] = t]
    /\ WaEntry(h)
    /\ UNCHANGED <<heap, killer, is_alive, status, spawned, calls,
                   num_calls>>
    /\ UNCHANGED retryVars
    /\ entry_alive' = [entry_alive EXCEPT ![h] = IsAlive(h)]
    /\ UNCHANGED late_calls

\* a loop that never reads the flag
LoopGoesOnAlways(h) == TRUE

\* a loop that leaves before its first call
LoopGoesOnNever(h) == FALSE

\* `while self.is_alive()` (line 66)
LoopGoesOn(h) == IsAlive(h)

\* the loop's check: another turn, or `Ok(())` (line 80)
WaLoop(h) ==
    /\ pc[h] = "wa_loop"
    /\ IF LoopGoesOn(h)
         THEN /\ pc' = [pc EXCEPT ![h] = "wa_call"]
              /\ UNCHANGED result
         ELSE /\ result' = [result EXCEPT ![h] = Ok("unit")]
              /\ pc' = [pc EXCEPT ![h] = "wa_ret"]
    /\ UNCHANGED <<heap, killer, is_alive, status, spawned, task,
                   calls, num_calls>>
    /\ UNCHANGED retryVars
    /\ UNCHANGED entry_alive
    /\ UNCHANGED late_calls

\* `task.call().await`: the task starts to execute
WaCall(h) ==
    /\ pc[h] = "wa_call"
    /\ num_calls < CallRoom(h)
    /\ num_calls' = num_calls + 1
    /\ calls' = [calls EXCEPT ![h] = calls[h] + 1]
    /\ pc' = [pc EXCEPT ![h] = "wa_await"]
    /\ UNCHANGED <<heap, killer, is_alive, status, spawned, task,
                   result>>
    /\ UNCHANGED retryVars
    /\ UNCHANGED entry_alive
    /\ late_calls' = LateCall(h)

\* (mutant) while_alive takes no failure for one
WaAbortsNever(res) == FALSE

\* `if let Err(err) = result` of while_alive (line 69)
WaAborts(res) == res.tag = "Err"

\* the call completes: lines 67..76; on Err abort and return, else loop
WaDone(h) ==
    /\ pc[h] = "wa_await"
    /\ LET res == map_err_into(Outcome(task[h], calls[h])) IN
         IF WaAborts(res)
           THEN /\ heap' = StoreFalse(heap, is_alive[h])
                /\ killer' = Kills(h)
                /\ result' = [result EXCEPT ![h] = res]
                /\ pc' = [pc EXCEPT ![h] = "wa_ret"]
           ELSE /\ pc' = [pc EXCEPT ![h] = "wa_loop"]
                /\ UNCHANGED <<heap, killer, result>>
    /\ UNCHANGED <<is_alive, status, spawned, task, calls, num_calls>>
    /\ UNCHANGED retryVars
    /\ UNCHANGED entry_alive
    /\ UNCHANGED late_calls

\* the caller has the result of run or while_alive: the future is dropped
Returned(h) ==
    /\ pc[h] \in {"run_ret", "wa_ret"}
    /\ ~spawned[h]
    /\ pc' = [pc EXCEPT ![h] = "idle"]
    /\ task' = [task EXCEPT ![h] = NoTask]
    /\ calls' = [calls EXCEPT ![h] = 0]
    /\ result' = [result EXCEPT ![h] = NoResult]
    /\ UNCHANGED <<heap, killer, is_alive, status, spawned, num_calls>>
    /\ UNCHANGED retryVars
    /\ entry_alive' = [entry_alive EXCEPT ![h] = FALSE]
    /\ late_calls' = [late_calls EXCEPT ![h] = 0]

\* spawn_while_alive(task): `let clone = self.clone()`, and the worker that
\* owns the clone is spawned
SpawnWhileAlive(h, t) ==
    /\ status[h] = "live"
    /\ ~spawned[h]
    /\ NextHolder \in Holders
    /\ LET c == NextHolder IN
         /\ is_alive' = [is_alive EXCEPT ![c] = ArcClone(h).ptr]
         /\ heap' = ArcClone(h).heap
         /\ status' = [status EXCEPT ![c] = "live"]
         /\ spawned' = [spawned EXCEPT ![c] = TRUE]
         /\ task' = [task EXCEPT ![c] = t]
         /\ pc' = [pc EXCEPT ![c] = "start"]
    /\ UNCHANGED <<killer, calls, result, num_calls>>
    /\ UNCHANGED retryVars
    /\ UNCHANGED entry_alive
    /\ UNCHANGED late_calls

\* the worker polls `clone.while_alive(task)` for the first time
WorkerStart(h) ==
    /\ pc[h] = "start"
    /\ WaEntry(h)
    /\ UNCHANGED <<heap, killer, is_alive, status, spawned, task,
                   calls, num_calls>>
    /\ UNCHANGED retryVars
    /\ entry_alive' = [entry_alive EXCEPT ![h] = IsAlive(h)]
    /\ UNCHANGED late_calls

\* the worker's future is complete: the clone it owns is dropped, and the
\* JoinHandle yields result[h]
WorkerExit(h) ==
    /\ pc[h] = "wa_ret"
    /\ spawned[h]
    /\ heap' = StoreFalse(heap, is_alive[h])
    /\ killer' = Kills(h)
    /\ status' = [status EXCEPT ![h] = "dropped"]
    /\ pc' = [pc EXCEPT ![h] = "joined"]
    /\ task' = [task EXCEPT ![h] = NoTask]
    /\ calls' = [calls EXCEPT ![h] = 0]
    /\ UNCHANGED <<is_alive, spawned, result, num_calls>>
    /\ UNCHANGED retryVars
    /\ entry_alive' = [entry_alive EXCEPT ![h] = FALSE]
    /\ late_calls' = [late_calls EXCEPT ![h] = 0]

LatchNext ==
    \/ \E h \in Holders : Clone(h)
    \/ \E h \in Holders : Abort(h)
    \/ \E h \in Holders : Drop(h)
    \/ \E h \in Holders, t \in RunTasks : Run(h, t)
    \/ \E h \in Holders : RunCall(h)
    \/ \E h \in Holders : RunDone(h)
    \/ \E h \in Holders, t \in LoopTasks : WhileAlive(h, t)
    \/ \E h \in Holders : WaLoop(h)
    \/ \E h \in Holders : WaCall(h)
    \/ \E h \in Holders : WaDone(h)
    \/ \E h \in Holders : Returned(h)
    \/ \E h \in Holders, t \in LoopTasks : SpawnWhileAlive(h, t)
    \/ \E h \in Holders : WorkerStart(h)
    \/ \E h \in Holders : WorkerExit(h)

Init == RetryInit /\ LatchInit

\* one RetryTask: its builder calls and one run
RetrySpec == Init /\ [][RetryNext]_vars

\* one latch and its holders
LatchSpec == Init /\ [][LatchNext]_vars

\* A method that is running goes on: the executor polls the future that
\* is awaited, a spawned worker has a thread of its own, and a task call
\* ends.  Nothing obliges a caller to call a method or to take a result.
MethodSteps(h) ==
    \/ WorkerStart(h)
    \/ WaLoop(h)
    \/ WaCall(h)
    \/ WaDone(h)
    \/ RunCall(h)
    \/ RunDone(h)
    \/ WorkerExit(h)

LatchFairSpec == LatchSpec /\ \A h \in Holders : WF_vars(MethodSteps(h))

(***************************************************************************)
(* Properties of RetryTask::run, checked under RetrySpec.                  *)
(***************************************************************************)
IsCall(e) == e.ev = "call"
IsSleep(e) == e.ev = "sleep"
Calls == SelectSeq(log, IsCall)
Sleeps == SelectSeq(log, IsSleep)
AllFailed == \A i \in 1..Len(Calls) : Calls[i].out.tag = "Err"
RunEnded == r_pc \in {"done", "panicked"}

\* the call of fun that first succeeded, 0 if none did
FirstOk ==
    IF AllFailed THEN 0
    ELSE CHOOSE k \in 1..Len(Calls) :
           /\ Calls[k].out.tag = "Ok"
           /\ \A i \in 1..(k - 1) : Calls[i].out.tag = "Err"

\* C1: with num_retries = n >= 1, a run whose every invocation of the inner
\* task failed has invoked it exactly n times and returns Err with the
\* error of the n-th invocation.
C1_AlwaysFailing ==
    (r_pc = "done" /\ num_retries >= 1 /\ AllFailed)
        => /\ Len(Calls) = num_retries
           /\ r_result = Err(IntoAnyhow(Calls[num_retries].out.err))

C1_Witness ==
    /\ r_pc = "done"
    /\ num_retries = 3
    /\ AllFailed
    /\ Len(Calls) = 3
    /\ Calls[3].out.err # Calls[2].out.err
    /\ r_result.tag = "Err"

\* C2: a run whose inner task fails on invocations 1..k-1 and succeeds on
\* invocation k <= n has invoked it exactly k times, returns Ok with the
\* value of the k-th invocation, and does not sleep after that invocation:
\* the k-th call is the last thing the run did, after k-1 sleeps.
C2_SucceedsOnKth ==
    (RunEnded /\ ~AllFailed /\ FirstOk <= num_retries)
        => /\ r_pc = "done"
           /\ Len(Calls) = FirstOk
           /\ r_result = Ok(Calls[FirstOk].out.val)
           /\ IsCall(log[Len(log)])
           /\ Len(Sleeps) = FirstOk - 1

C2_Witness ==
    /\ r_pc = "done"
    /\ r_result = Ok("v2")
    /\ Len(Calls) = 3
    /\ Len(Sleeps) = 2

\* C3: when all n >= 1 attempts fail, the run sleeps exactly n-1 times and
\* returns right after the n-th failure: the last thing it did is a call.
C3_NoSleepAfterFinalAttempt ==
    (r_pc = "done" /\ num_retries >= 1 /\ AllFailed)
        => /\ Len(Sleeps) = num_retries - 1
           /\ IsCall(log[Len(log)])

\* C4: a run with num_retries = 0 invokes nothing and ends in a panic, not
\* in a returned Err.
C4_ZeroAttemptsPanics ==
    (num_retries = 0 /\ r_pc \notin {"new", "loop"})
        => /\ log = <<>>
           /\ r_pc = "panicked"

\* What run does with num_retries = 0: it invokes nothing, sleeps never,
\* does not panic, and returns Err with the error made of the message
\* "Ran out of retries and error was not caught".
ZeroAttemptsReturnsErr ==
    (num_retries = 0 /\ r_pc # "new")
        => /\ log = <<>>
           /\ r_pc \in {"loop", "done"}
           /\ r_pc = "done" => r_result = Err(RanOutMsg)

RECURSIVE SumOfSleeps(_)
\* the time slept over a sequence of sleep events
SumOfSleeps(sl) ==
    IF sl = <<>> THEN 0 ELSE Head(sl).d + SumOfSleeps(Tail(sl))

\* C17: a run does not sleep before its first attempt and sleeps exactly
\* once, for a duration its sleep_time allows, between a failed attempt and
\* the attempt that follows: calls and sleeps alternate, a call first, so
\* the j-th attempt begins after j-1 sleeps.  With a fixed duration d, a
\* run that succeeded on attempt k has slept at least (k-1)*d, and a run
\* that used up its n >= 1 attempts at least (n-1)*d.
C17_SleepsBetweenAttempts ==
    /\ \A i \in 1..Len(log) : IsCall(log[i]) <=> i % 2 = 1
    /\ \A i \in 1..Len(log) :
          IsSleep(log[i]) => /\ log[i].d \in into_duration(sleep_time)
                             /\ log[i - 1].out.tag = "Err"
    /\ (r_pc = "done" /\ sleep_time.kind = "Duration")
          => IF r_result.tag = "Ok"
             THEN SumOfSleeps(Sleeps) >= (Len(Calls) - 1) * sleep_time.min
             ELSE num_retries >= 1
                    => /\ Len(Calls) = num_retries
                       /\ SumOfSleeps(Sleeps)
                            >= (num_retries - 1) * sleep_time.min

C17_Witness ==
    /\ r_pc = "done"
    /\ sleep_time = SleepTimeDuration(100)
    /\ r_result.tag = "Ok"
    /\ Len(Calls) = 3
    /\ SumOfSleeps(Sleeps) = 200

\* C18: with num_retries = n >= 1, whatever the inner task's outcomes,
\* when the loop is left without an Ok having been returned an error has
\* been recorded: the run returns that error and never the error made of
\* the message "Ran out of retries and error was not caught".
C18_FallbackUnreachable ==
    /\ (r_pc = "loop" /\ num_retries >= 1
           /\ ~RangeYields(retry, num_retries))
          => last_error # NoErr
    /\ (r_pc = "done" /\ num_retries >= 1 /\ r_result.tag = "Err")
          => /\ last_error # NoErr
             /\ r_result = Err(last_error)
             /\ r_result # Err(RanOutMsg)

C18_Witness ==
    /\ r_pc = "done"
    /\ num_retries = 2
    /\ Len(Calls) = 2
    /\ r_result.tag = "Err"
    /\ r_result # Err(RanOutMsg)

(***************************************************************************)
(* Properties of SuccessTrackingTask, checked under LatchSpec.             *)
(***************************************************************************)
Live == {h \in Holders : status[h] = "live"}

\* C5: the flag is monotonic: under every interleaving of the methods of
\* the holders, a flag that is false stays false.
C5_Monotonic ==
    [][\A cell \in DOMAIN heap : ~heap[cell] => ~heap'[cell]]_vars

\* the flag is false, and a holder other than the one that made it so has
\* since stored to it
C5_Witness ==
    /\ ~heap[1]
    /\ \E h \in Holders : killer \notin {0, h} /\ status[h] = "dropped"

\* C6: is_alive() is true on the constructed latch until a holder stores
\* to the flag, and false on every holder, however and whenever it was
\* cloned, once any holder has called abort().
C6_IsAliveOnEveryClone ==
    /\ killer = 0 => \A h \in Live : IsAlive(h)
    /\ killer # 0 => \A h \in Live : ~IsAlive(h)

C6_Witness ==
    /\ killer = 1
    /\ Live = {1, 2}
    /\ ~spawned[2]
    /\ ~IsAlive(2)

\* C7: run called on a holder whose latch is false at the call does not
\* execute the supplied future and returns the AlreadyDead error.
C7_RunOnDeadLatch ==
    \A h \in Holders :
        (pc[h] = "run_ret" /\ ~entry_alive[h])
            => /\ calls[h] = 0
               /\ result[h] = Err(AlreadyDead)

\* the latch was killed through the other holder
C7_Witness ==
    \E h \in Holders :
        /\ pc[h] = "run_ret"
        /\ ~entry_alive[h]
        /\ killer \notin {0, h}
        /\ num_calls > 0

\* C8: run called on a true latch with a future that fails returns that
\* future's error, and the latch is false on every holder by then.
C8_RunFailureKills ==
    \A h \in Holders :
        (pc[h] = "run_ret" /\ entry_alive[h] /\ task[h].failAt = 1)
            => /\ result[h] = Err(IntoAnyhow(task[h].err))
               /\ \A g \in Live : ~IsAlive(g)

C8_Witness ==
    \E h \in Holders :
        /\ pc[h] = "run_ret"
        /\ entry_alive[h]
        /\ task[h].err = "e2"
        /\ killer = h
        /\ Live = Holders

\* C9: run called on a true latch with a future that succeeds returns the
\* future's value and does not write the flag; the latch is still true
\* when run has returned, unless another holder has stored to it.
C9_RunSuccessKeepsFlag ==
    /\ [](\A h \in Holders :
            (pc[h] = "run_ret" /\ entry_alive[h] /\ task[h].failAt = 0)
                => /\ result[h] = Ok(task[h].val)
                   /\ killer = 0 => IsAlive(h))
    /\ [][\A h \in Holders :
            (pc[h] = "run_await" /\ pc'[h] = "run_ret"
                /\ task[h].failAt = 0) => heap' = heap]_vars

C9_Witness ==
    \E h \in Holders :
        /\ pc[h] = "run_ret"
        /\ entry_alive[h]
        /\ result[h] = Ok("v2")
        /\ IsAlive(h)

\* C10: while_alive called on a true latch with a task that fails on call m
\* (and not before), no other holder having stored to the flag, makes
\* exactly m calls, returns the error of call m and leaves the latch
\* false; and no loop calls its task again after a failed call.
C10_WhileAliveStopsAtFailure ==
    /\ \A h \in Holders :
         (pc[h] = "wa_ret" /\ entry_alive[h] /\ task[h].failAt >= 1
             /\ killer \in {0, h})
           => /\ calls[h] = task[h].failAt
              /\ result[h] = Err(IntoAnyhow(ErrOfCall(calls[h])))
              /\ ~IsAlive(h)
    /\ \A h \in Holders :
         (pc[h] \in {"wa_loop", "wa_call"} /\ task[h].failAt >= 1)
           => calls[h] < task[h].failAt

C10_Witness ==
    \E h \in Holders :
        /\ pc[h] = "wa_ret"
        /\ entry_alive[h]
        /\ task[h].failAt = 2
        /\ calls[h] = 2
        /\ killer = h

\* C11: for every j >= 1, when another holder has made the flag false
\* after the j-th call of a while_alive loop succeeded and before the
\* loop reads the flag again, the loop's next step is its return: it makes
\* no further call, so j calls in all, and it returns Ok(()).
C11_AbortBetweenIterations ==
    [][\A h \in Holders :
         (pc[h] = "wa_loop" /\ calls[h] >= 1 /\ ~IsAlive(h)
             /\ pc'[h] # pc[h])
           => /\ pc'[h] = "wa_ret"
              /\ calls'[h] = calls[h]
              /\ result'[h] = Ok("unit")]_vars

C11_Witness ==
    \E h \in Holders :
        /\ pc[h] = "wa_ret"
        /\ entry_alive[h]
        /\ calls[h] = 2
        /\ result[h] = Ok("unit")
        /\ killer \notin {0, h}

\* C12: while_alive called on a holder whose flag is already false, by
\* whichever holder it was made false, calls its task zero times and
\* returns the AlreadyDead error, not Ok(()).
C12_WhileAliveOnDeadLatch ==
    \A h \in Holders :
        (pc[h] = "wa_ret" /\ ~entry_alive[h])
          => /\ calls[h] = 0
             /\ result[h] = Err(AlreadyDead)

C12_Witness ==
    \E h \in Holders :
        /\ pc[h] = "wa_ret"
        /\ ~entry_alive[h]
        /\ ~spawned[h]
        /\ killer \notin {0, h}
        /\ result[h] = Err(AlreadyDead)

Dropped == {h \in Holders : status[h] = "dropped"}

\* C13: once any one holder, the original or a clone, has been dropped,
\* is_alive() is false on every remaining holder, and a run or a
\* while_alive then called on a remaining holder returns the AlreadyDead
\* error without calling its task.
C13_DropKillsTheLatch ==
    /\ [](Dropped # {} => \A g \in Live : ~IsAlive(g))
    /\ [][\A g \in Live :
            (Dropped # {} /\ pc[g] \in {"idle", "start"}
                /\ pc'[g] # pc[g])
              => /\ pc'[g] \in {"run_ret", "wa_ret"}
                 /\ result'[g] = Err(AlreadyDead)
                 /\ calls'[g] = 0]_vars

C13_Witness ==
    /\ status[2] = "dropped"
    /\ ~spawned[2]
    /\ status[1] = "live"
    /\ killer = 2
    /\ pc[1] = "run_ret"
    /\ result[1] = Err(AlreadyDead)

\* a while_alive that has been spawned or called and has not returned
InLoop(h) == pc[h] \in {"start", "wa_loop", "wa_call", "wa_await"}

\* C14: a worker having been spawned, whenever the flag is false, made so
\* by an abort(), by a failed call of any holder's run or while_alive or
\* by a drop, every while_alive that is running on any holder returns in
\* the end, when methods that run keep being scheduled and task calls end.
C14_LoopsReturnOnceDead ==
    \A h \in Holders :
        ((\E g \in Holders : spawned[g]) /\ InLoop(h) /\ ~IsAlive(h))
          ~> ~InLoop(h)

C14_Witness ==
    \E h \in Holders :
        /\ spawned[h]
        /\ pc[h] = "wa_ret"
        /\ entry_alive[h]
        /\ late_calls[h] = 1
        /\ result[h] = Ok("unit")
        /\ killer \notin {0, h}

\* the error a while_alive returns when its own task call failed
IsDomainErr(res) == res.tag = "Err" /\ res # Err(AlreadyDead)

InCall(h) == pc[h] \in {"run_await", "wa_await"}

\* C16: an abort() by another holder does not interrupt a call that run
\* or while_alive has begun: the call stays in flight until it ends, and
\* its result is then handled as that of any call.  Once the flag is
\* false a while_alive begins at most one further call, and only after a
\* check that read the flag while it was still true: a check that reads
\* false begins no call.
C16_CooperativeCancellation ==
    /\ [][\A h \in Holders :
            (InCall(h) /\ pc'[h] # pc[h])
              => /\ calls'[h] = calls[h]
                 /\ task'[h] = task[h]
                 /\ LET out == Outcome(task[h], calls[h]) IN
                    IF pc[h] = "run_await"
                    THEN pc'[h] = "run_ret" /\ result'[h] = map_err_into(out)
                    ELSE IF out.tag = "Err"
                    THEN pc'[h] = "wa_ret" /\ result'[h] = map_err_into(out)
                    ELSE pc'[h] = "wa_loop"]_vars
    /\ [](\A h \in Holders : late_calls[h] <= 1)
    /\ [][\A h \in Holders :
            (pc[h] = "wa_loop" /\ ~IsAlive(h)) => pc'[h] # "wa_call"]_vars

C16_Witness ==
    \E h \in Holders :
        /\ pc[h] = "wa_loop"
        /\ late_calls[h] = 1
        /\ calls[h] = 2
        /\ killer \notin {0, h}

\* C19: whenever a while_alive returns, with the AlreadyDead error, with a
\* domain error or with Ok(()), the flag is false at its return.
C19_ReturnsOnlyWhenDead ==
    \A h \in Holders : pc[h] = "wa_ret" => ~IsAlive(h)

C19_Witness ==
    /\ \E h \in Holders : pc[h] = "wa_ret" /\ result[h] = Ok("unit")
    /\ \E h \in Holders : pc[h] = "wa_ret" /\ IsDomainErr(result[h])

=============================================================================
